---- MODULE Spec2Model ----
(***************************************************************************)
(* Contacts REST backend: the users and contacts tables, the repository    *)
(* functions of src/repository and the route handlers of src/routes.       *)
(*                                                                         *)
(* Python None is the empty sequence Null, a present value x is Some(x).   *)
(* A string is a sequence of one-character strings, so that ILIKE can be   *)
(* computed character by character.                                        *)
(***************************************************************************)
EXTENDS Integers, Sequences, FiniteSets, TLC

VARIABLES
    users,          \* table users: sequence of rows, row i has id i
    contacts,       \* table contacts: set of rows
    nextContactId,  \* the serial behind Contact.id
    creator,        \* history: contact id -> id of the user whose create_contact made it
    now,            \* the last reading of the wall clock, in seconds
    issued,         \* history: refresh tokens handed out so far
    last,           \* the last request: operation, inputs, outcome
    inflight        \* requests served step by step next to each other

vars == <<users, contacts, nextContactId, creator, now, issued, last, inflight>>

Null == <<>>
Some(x) == <<x>>

(***************************************************************************)
(* Bounds                                                                  *)
(***************************************************************************)
MaxContactId == 2      \* contact ids handed out by the serial
MaxSkip == 1           \* largest offset tried by get_contacts
MaxLimit == 2          \* largest limit tried by get_contacts
MaxTime == 2           \* seconds the clock runs for
MaxInflight == 2       \* requests in progress at the same time

(***************************************************************************)
(* Input domains                                                           *)
(***************************************************************************)
FirstNames == {<<"A", "n">>, <<"b", "o">>}
LastNames == {<<"L", "e">>}
ContactEmails == {<<"a", "@">>, <<"B", "@">>}
Phones == {<<"5">>}
Birthdays == {Null, Some([month |-> 1, day |-> 30])}
AdditionalData == {Null}

\* ContactCreate / ContactUpdate payloads: body.dict()
Bodies == [first_name : FirstNames, last_name : LastNames, email : ContactEmails,
           phone_number : Phones, birthday : Birthdays,
           additional_data : AdditionalData]

\* search terms: empty, a letter in the other case, the LIKE wildcards
SearchTerms == {<<>>, <<"a">>, <<"_">>}

\* values of datetime.now().date()
Todays == {[month |-> 1, day |-> 20], [month |-> 1, day |-> 23],
           [month |-> 1, day |-> 25], [month |-> 1, day |-> 30],
           [month |-> 2, day |-> 1]}

UserEmails == {"u1", "u2"}
SignupPasswords == {"pw"}
Passwords == {"pw", "bad"}

\* the ids of the stored users
UserIds == 1..Len(users)

\* auth_service.get_password_hash / verify_password
get_password_hash(p) == <<"hash", p>>
verify_password(p, h) == h = get_password_hash(p)

\* variant: the confirmed column defaults to True
User_ConfirmedByDefault(id, email, password) ==
    [id |-> id, email |-> email, password |-> password,
     refresh_token |-> Null, confirmed |-> TRUE]

\* models.User(**body.dict()) with the column defaults
User(id, email, password) ==
    [id |-> id, email |-> email, password |-> password,
     refresh_token |-> Null, confirmed |-> FALSE]

\* variant: the constructor call leaves out birthday=body.birthday
Contact_NoBirthday(id, body, user_id) ==
    [id |-> id, first_name |-> body.first_name, last_name |-> body.last_name,
     email |-> body.email, phone_number |-> body.phone_number,
     birthday |-> Null, additional_data |-> body.additional_data,
     user_id |-> user_id]

\* models.Contact(...)
Contact(id, body, user_id) ==
    [id |-> id, first_name |-> body.first_name, last_name |-> body.last_name,
     email |-> body.email, phone_number |-> body.phone_number,
     birthday |-> body.birthday, additional_data |-> body.additional_data,
     user_id |-> user_id]

(***************************************************************************)
(* Repository (contacts): queries                                          *)
(***************************************************************************)
\* variant: the filter leaves out Contact.user_id == user.id
OwnedWithId_AnyOwner(contact_id, user) ==
    {c \in contacts : c.id = contact_id}

\* variant: the filter leaves out Contact.id == contact_id
OwnedWithId_AnyId(contact_id, user) ==
    {c \in contacts : c.user_id = user}

\* query(Contact).filter(Contact.id == contact_id, Contact.user_id == user.id)
OwnedWithId(contact_id, user) ==
    {c \in contacts : c.id = contact_id /\ c.user_id = user}

\* .first(): the row or None (Contact.id is the primary key: at most one row)
First(rows) == IF rows = {} THEN Null ELSE Some(CHOOSE c \in rows : TRUE)

get_contact(contact_id, user) == First(OwnedWithId(contact_id, user))

\* every order the database may return a set of rows in
Orders(rows) ==
    {s \in [1..Cardinality(rows) -> rows] :
        \A i, j \in 1..Cardinality(rows) : i # j => s[i] # s[j]}

Min(a, b) == IF a < b THEN a ELSE b

\* .offset(skip).limit(limit) over the rows in the order the database chose
OffsetLimit(ordered, skip, limit) ==
    SubSeq(ordered, skip + 1, Min(Len(ordered), skip + limit))

\* the lists get_contacts may return
get_contacts(skip, limit, user) ==
    {OffsetLimit(o, skip, limit) : o \in Orders({c \in contacts : c.user_id = user})}

\* lower(): the case folding ILIKE applies, on the letters in use
Lower(ch) ==
    CASE ch = "A" -> "a"
      [] ch = "B" -> "b"
      [] ch = "L" -> "l"
      [] OTHER -> ch

\* SQL LIKE on folded characters: % matches any run of characters, _ matches
\* any one character, every other pattern character matches itself
RECURSIVE Like(_, _)
Like(str, pattern) ==
    IF pattern = <<>> THEN str = <<>>
    ELSE IF Head(pattern) = "%"
         THEN Like(str, Tail(pattern)) \/ (str # <<>> /\ Like(Tail(str), pattern))
    ELSE IF str = <<>> THEN FALSE
    ELSE /\ Head(pattern) = "_" \/ Lower(Head(pattern)) = Lower(Head(str))
         /\ Like(Tail(str), Tail(pattern))

\* column.ilike(f"%{term}%")
ILikeContains(column, term) == Like(column, <<"%">> \o term \o <<"%">>)

\* query(Contact).filter(and_(..., Contact.user_id == User.id)): the filter
\* names the users table, so the rows are those of contacts joined to users
JoinedToUser(c) == \E i \in 1..Len(users) : c.user_id = users[i].id

\* the rows of .all(), as a set
search_contacts(first_name, last_name, email) ==
    {c \in contacts :
        /\ ILikeContains(c.first_name, first_name)
        /\ ILikeContains(c.last_name, last_name)
        /\ ILikeContains(c.email, email)
        /\ JoinedToUser(c)}

\* days of each month of datetime.now()'s year (a common year)
DaysInMonth(m) ==
    IF m = 2 THEN 28 ELSE IF m \in {4, 6, 9, 11} THEN 30 ELSE 31

\* today + timedelta(days=7)
PlusWeek(today) ==
    IF today.day + 7 <= DaysInMonth(today.month)
    THEN [month |-> today.month, day |-> today.day + 7]
    ELSE [month |-> IF today.month = 12 THEN 1 ELSE today.month + 1,
          day |-> today.day + 7 - DaysInMonth(today.month)]

\* `Contact.birthday is not None` is evaluated by Python on the column object
\* and is the constant True; date_part of a NULL birthday is NULL, which no
\* comparison accepts
get_contacts_upcoming_birthdays(today) ==
    LET next_week == PlusWeek(today) IN
    {c \in contacts :
        /\ TRUE
        /\ c.birthday # Null
        /\ c.birthday[1].month = today.month
        /\ c.birthday[1].day >= today.day
        /\ c.birthday[1].day <= next_week.day
        /\ JoinedToUser(c)}

\* the unique index on contacts.email, evaluated at commit for row `id`
EmailTaken(email, id) == \E c \in contacts : c.id # id /\ c.email = email

(***************************************************************************)
(* Route handlers (contacts). The caller is the authenticated user.        *)
(***************************************************************************)
Req(op, user, id, body, status, ret) ==
    [op |-> op, user |-> user, id |-> id, body |-> body, status |-> status,
     ret |-> ret, pre |-> get_contact(id, user)]

\* no request made yet
NoReq == [op |-> "none"]

NotFoundOr(ok, ret) == IF ret = Null THEN 404 ELSE ok

read_contacts(user, skip, limit) ==
    /\ \E rows \in get_contacts(skip, limit, user) :
          last' = [op |-> "read_contacts", user |-> user, skip |-> skip,
                   limit |-> limit, status |-> 200, ret |-> rows]
    /\ UNCHANGED <<users, contacts, nextContactId, creator, now, issued, inflight>>

read_contact(user, contact_id) ==
    /\ LET ret == get_contact(contact_id, user) IN
          last' = Req("read_contact", user, contact_id, Null, NotFoundOr(200, ret), ret)
    /\ UNCHANGED <<users, contacts, nextContactId, creator, now, issued, inflight>>

create_contact(user, body) ==
    /\ nextContactId <= MaxContactId
    /\ nextContactId' = nextContactId + 1
    /\ IF EmailTaken(body.email, nextContactId)
       THEN \* db.commit() raises IntegrityError, nothing is stored
            /\ last' = Req("create_contact", user, nextContactId, Some(body), 500, Null)
            /\ UNCHANGED <<contacts, creator>>
       ELSE LET contact == Contact(nextContactId, body, user) IN
            /\ contacts' = contacts \cup {contact}
            /\ creator' = [i \in DOMAIN creator \cup {contact.id} |->
                             IF i = contact.id THEN user ELSE creator[i]]
            /\ last' = Req("create_contact", user, contact.id, Some(body), 201,
                           Some(contact))
    /\ UNCHANGED <<users, now, issued, inflight>>

\* variant: the delete takes every contact of the owner with it
Delete_AllOfOwner(rows, contact) ==
    {c \in rows : c.user_id # contact.user_id}

\* db.delete(contact); db.commit()
Delete(rows, contact) == rows \ {contact}

remove_contact(user, contact_id) ==
    /\ LET contact == get_contact(contact_id, user) IN
          /\ IF contact # Null
             THEN contacts' = Delete(contacts, contact[1])
             ELSE UNCHANGED contacts
          /\ last' = Req("remove_contact", user, contact_id, Null,
                         NotFoundOr(200, contact), contact)
    /\ UNCHANGED <<users, nextContactId, creator, now, issued, inflight>>

\* variant: a null payload value keeps the stored value
SetAttrs_KeepOnNull(contact, body) ==
    [f \in DOMAIN contact |->
        IF f \in DOMAIN body /\ body[f] # Null THEN body[f] ELSE contact[f]]

\* for field, value in body.dict().items(): setattr(contact, field, value)
SetAttrs(contact, body) ==
    [f \in DOMAIN contact |-> IF f \in DOMAIN body THEN body[f] ELSE contact[f]]

update_contact(user, contact_id, body) ==
    /\ LET contact == get_contact(contact_id, user) IN
          IF contact = Null
          THEN /\ last' = Req("update_contact", user, contact_id, Some(body), 404, Null)
               /\ UNCHANGED contacts
          ELSE IF EmailTaken(body.email, contact_id)
          THEN \* db.commit() raises IntegrityError, the row keeps its values
               /\ last' = Req("update_contact", user, contact_id, Some(body), 500, Null)
               /\ UNCHANGED contacts
          ELSE LET updated == SetAttrs(contact[1], body) IN
               /\ contacts' = (contacts \ {contact[1]}) \cup {updated}
               /\ last' = Req("update_contact", user, contact_id, Some(body), 200,
                              Some(updated))
    /\ UNCHANGED <<users, nextContactId, creator, now, issued, inflight>>

search_contacts_api(first_name, last_name, email) ==
    /\ last' = [op |-> "search_contacts", first_name |-> first_name,
                last_name |-> last_name, email |-> email, status |-> 200,
                ret |-> search_contacts(first_name, last_name, email)]
    /\ UNCHANGED <<users, contacts, nextContactId, creator, now, issued, inflight>>

get_upcoming_birthdays(today) ==
    /\ last' = [op |-> "upcoming_birthdays", today |-> today, status |-> 200,
                ret |-> get_contacts_upcoming_birthdays(today)]
    /\ UNCHANGED <<users, contacts, nextContactId, creator, now, issued, inflight>>

(***************************************************************************)
(* Specification of the contacts routes: two users have signed up,         *)
(* confirmed their email and logged in; no contact is stored yet.          *)
(***************************************************************************)
InitContacts ==
    /\ users = [i \in 1..2 |->
                  [User(i, IF i = 1 THEN "u1" ELSE "u2", get_password_hash("pw"))
                     EXCEPT !.confirmed = TRUE]]
    /\ contacts = {}
    /\ nextContactId = 1
    /\ creator = <<>>
    /\ now = 0
    /\ issued = {}
    /\ last = NoReq
    /\ inflight = <<>>

NextContacts ==
    \/ \E user \in UserIds, skip \in 0..MaxSkip, limit \in 1..MaxLimit :
          read_contacts(user, skip, limit)
    \/ \E user \in UserIds, id \in 1..MaxContactId : read_contact(user, id)
    \/ \E user \in UserIds, body \in Bodies : create_contact(user, body)
    \/ \E user \in UserIds, id \in 1..MaxContactId : remove_contact(user, id)
    \/ \E user \in UserIds, id \in 1..MaxContactId, body \in Bodies :
          update_contact(user, id, body)
    \/ \E first_name, last_name, email \in SearchTerms :
          search_contacts_api(first_name, last_name, email)
    \/ \E today \in Todays : get_upcoming_birthdays(today)

SpecContacts == InitContacts /\ [][NextContacts]_vars

(***************************************************************************)
(* Auth service (src/services/auth.py): tokens carry the user's email as   *)
(* subject, their type and the second they were issued in.                 *)
(***************************************************************************)
create_access_token(email, t) ==
    [sub |-> email, scope |-> "access_token", iat |-> t]

create_refresh_token(email, t) ==
    [sub |-> email, scope |-> "refresh_token", iat |-> t]

\* the subject of a refresh token, None for a token of another type
decode_refresh_token(token) ==
    IF token.scope = "refresh_token" THEN Some(token.sub) ELSE Null

(***************************************************************************)
(* Repository (users)                                                      *)
(***************************************************************************)
\* query(User).filter(User.email == email).first()
get_user_by_email(email) ==
    LET ids == {i \in 1..Len(users) : users[i].email = email} IN
    IF ids = {} THEN Null ELSE Some(users[CHOOSE i \in ids : TRUE])

\* db.add(new_user); db.commit(); db.refresh(new_user)
create_user(rows, email, password) ==
    Append(rows, User(Len(rows) + 1, email, password))

\* variant: a null token is not written
update_token_SkipNull(rows, id, token) ==
    IF token = Null THEN rows ELSE [rows EXCEPT ![id].refresh_token = token]

\* user.refresh_token = token; db.commit()
update_token(rows, id, token) ==
    [rows EXCEPT ![id].refresh_token = token]

\* variant: the flag is set but never committed
repository_confirmed_email_NoWrite(rows, id) == rows

\* user.confirmed = True; db.commit()
repository_confirmed_email(rows, id) ==
    [rows EXCEPT ![id].confirmed = TRUE]

(***************************************************************************)
(* Route handlers (auth)                                                   *)
(***************************************************************************)
AuthReq(op, email, status, detail) ==
    [op |-> op, email |-> email, status |-> status, detail |-> detail]

\* the clock may read the same second again, or a later one
Clock == {t \in now..(now + 1) : t <= MaxTime}

\* mail: send_email scheduled as a background task
signup(email, password) ==
    /\ LET exist_user == get_user_by_email(email) IN
          IF exist_user # Null
          THEN /\ last' = AuthReq("signup", email, 409, "Account already exists")
                             @@ [mail |-> Null]
               /\ UNCHANGED users
          ELSE /\ users' = create_user(users, email, get_password_hash(password))
               /\ last' = AuthReq("signup", email, 201, "User successfully created")
                             @@ [mail |-> Some(email)]
    /\ UNCHANGED <<contacts, nextContactId, creator, now, issued, inflight>>

\* variant: the confirmed flag is not looked at
login_check_NoConfirmed(user, password) ==
    IF user = Null THEN "Invalid email"
    ELSE IF ~verify_password(password, user[1].password) THEN "Invalid password"
    ELSE "ok"

\* variant: the password is verified before the confirmed flag
login_check_PasswordFirst(user, password) ==
    IF user = Null THEN "Invalid email"
    ELSE IF ~verify_password(password, user[1].password) THEN "Invalid password"
    ELSE IF ~user[1].confirmed THEN "Email not confirmed"
    ELSE "ok"

\* the three checks of login, in their order
login_check(user, password) ==
    IF user = Null THEN "Invalid email"
    ELSE IF ~user[1].confirmed THEN "Email not confirmed"
    ELSE IF ~verify_password(password, user[1].password) THEN "Invalid password"
    ELSE "ok"

\* t: datetime.utcnow() as the token is stamped
login(email, password, t) ==
    /\ t \in Clock
    /\ now' = t
    /\ LET user == get_user_by_email(email)
           detail == login_check(user, password)
       IN IF detail # "ok"
          THEN /\ last' = AuthReq("login", email, 401, detail)
                             @@ [password |-> password, tokens |-> Null]
               /\ UNCHANGED <<users, issued>>
          ELSE LET access_token == create_access_token(user[1].email, t)
                   refresh_token == create_refresh_token(user[1].email, t)
               IN /\ users' = update_token(users, user[1].id, Some(refresh_token))
                  /\ issued' = issued \cup {refresh_token}
                  /\ last' = AuthReq("login", email, 200, "ok")
                                @@ [password |-> password,
                                    tokens |-> Some([access_token |-> access_token,
                                                     refresh_token |-> refresh_token,
                                                     token_type |-> "bearer"])]
    /\ UNCHANGED <<contacts, nextContactId, creator, inflight>>

\* variant: only the subject of the stored token is compared
TokenMismatch_SubjectOnly(user, token) ==
    \/ user.refresh_token = Null
    \/ user.refresh_token[1].sub # token.sub

\* user.refresh_token != token
TokenMismatch(user, token) == user.refresh_token # Some(token)

\* token: the bearer credential; pre: the user's stored token on arrival;
\* t: datetime.utcnow() as the new token is stamped
refresh_token(token, t) ==
    /\ t \in Clock
    /\ now' = t
    /\ LET email == decode_refresh_token(token) IN
          IF email = Null
          THEN /\ last' = AuthReq("refresh_token", token.sub, 401, "Invalid scope for token")
                             @@ [token |-> token, tokens |-> Null, pre |-> Null]
               /\ UNCHANGED <<users, issued>>
          ELSE LET user == get_user_by_email(email[1])[1] IN
               IF TokenMismatch(user, token)
               THEN /\ users' = update_token(users, user.id, Null)
                    /\ last' = AuthReq("refresh_token", email[1], 401, "Invalid refresh token")
                                  @@ [token |-> token, tokens |-> Null,
                                      pre |-> user.refresh_token]
                    /\ UNCHANGED issued
               ELSE LET access_token == create_access_token(email[1], t)
                        new_token == create_refresh_token(email[1], t)
                    IN /\ users' = update_token(users, user.id, Some(new_token))
                       /\ issued' = issued \cup {new_token}
                       /\ last' = AuthReq("refresh_token", email[1], 200, "ok")
                                     @@ [token |-> token,
                                         tokens |-> Some([access_token |-> access_token,
                                                          refresh_token |-> new_token,
                                                          token_type |-> "bearer"]),
                                         pre |-> user.refresh_token]
    /\ UNCHANGED <<contacts, nextContactId, creator, inflight>>

\* email: what get_email_from_token reads from the confirmation token
confirmed_email(email) ==
    /\ LET user == get_user_by_email(email) IN
          IF user = Null
          THEN /\ last' = AuthReq("confirmed_email", email, 400, "Verification error")
               /\ UNCHANGED users
          ELSE IF user[1].confirmed
          THEN /\ last' = AuthReq("confirmed_email", email, 200,
                                  "Your email is already confirmed")
               /\ UNCHANGED users
          ELSE /\ users' = repository_confirmed_email(users, user[1].id)
               /\ last' = AuthReq("confirmed_email", email, 200, "Email confirmed")
    /\ UNCHANGED <<contacts, nextContactId, creator, now, issued, inflight>>

\* variant: the mail is scheduled for confirmed users as well
request_email_SendAlways(email) ==
    /\ LET user == get_user_by_email(email) IN
          IF user = Null
          THEN last' = AuthReq("request_email", email, 500, "AttributeError")
                          @@ [mail |-> Null]
          ELSE last' = AuthReq("request_email", email, 200,
                               "Check your email for confirmation.")
                          @@ [mail |-> Some(email)]
    /\ UNCHANGED <<users, contacts, nextContactId, creator, now, issued, inflight>>

request_email(email) ==
    /\ LET user == get_user_by_email(email) IN
          IF user = Null
          THEN \* user.confirmed on None raises AttributeError
               last' = AuthReq("request_email", email, 500, "AttributeError")
                          @@ [mail |-> Null]
          ELSE IF user[1].confirmed
          THEN last' = AuthReq("request_email", email, 200,
                               "Your email is already confirmed") @@ [mail |-> Null]
          ELSE last' = AuthReq("request_email", email, 200,
                               "Check your email for confirmation.")
                          @@ [mail |-> Some(email)]
    /\ UNCHANGED <<users, contacts, nextContactId, creator, now, issued, inflight>>

\* what a client can put in the Authorization header of refresh_token: a
\* refresh token it was given, or a token of the other type
Presentable ==
    issued \cup {create_access_token(t.sub, t.iat) : t \in issued}

(***************************************************************************)
(* Specification of the auth routes, from the empty database               *)
(***************************************************************************)
InitAuth ==
    /\ users = <<>>
    /\ contacts = {}
    /\ nextContactId = 1
    /\ creator = <<>>
    /\ now = 0
    /\ issued = {}
    /\ last = NoReq
    /\ inflight = <<>>

NextAuth ==
    \/ \E email \in UserEmails, password \in SignupPasswords : signup(email, password)
    \/ \E email \in UserEmails, password \in Passwords, t \in 0..MaxTime :
          login(email, password, t)
    \/ \E token \in Presentable, t \in 0..MaxTime : refresh_token(token, t)
    \/ \E email \in UserEmails : confirmed_email(email)
    \/ \E email \in UserEmails : request_email(email)

SpecAuth == InitAuth /\ [][NextAuth]_vars

(***************************************************************************)
(* Requests served next to each other. Every request has its own database  *)
(* session: what it read stays in the session until it commits, and the    *)
(* database runs at its default isolation level, without row locks.        *)
(***************************************************************************)
\* the requests that have committed
Committed == {r \in 1..Len(inflight) : inflight[r].seq > 0}

\* the position of the next commit
NextSeq == Cardinality(Committed) + 1

\* a request arrives
Begin(request) ==
    /\ Len(inflight) < MaxInflight
    /\ inflight' = Append(inflight, request @@ [status |-> 0, seq |-> 0, before |-> {}])

\* request r goes on to its next step with these fields changed
Advance(r, changes) ==
    inflight' = [inflight EXCEPT ![r] = changes @@ inflight[r]]

\* PUT /contacts/{contact_id} arrives
begin_update_contact(user, contact_id, body) ==
    /\ Begin([op |-> "update_contact", pc |-> "read", user |-> user,
              id |-> contact_id, body |-> body, loaded |-> Null, obj |-> Null])
    /\ UNCHANGED <<users, contacts, nextContactId, creator, now, issued, last>>

\* contact = db.query(Contact).filter(...).first()
update_contact_read(r) ==
    /\ inflight[r].op = "update_contact" /\ inflight[r].pc = "read"
    /\ LET contact == get_contact(inflight[r].id, inflight[r].user) IN
          IF contact = Null
          THEN Advance(r, [pc |-> "done", status |-> 404, before |-> Committed])
          ELSE Advance(r, [pc |-> "assign", loaded |-> contact, before |-> Committed])
    /\ UNCHANGED <<users, contacts, nextContactId, creator, now, issued, last>>

\* the setattr loop, on the session's object
update_contact_assign(r) ==
    /\ inflight[r].op = "update_contact" /\ inflight[r].pc = "assign"
    /\ Advance(r, [pc |-> "commit",
                   obj |-> Some(SetAttrs(inflight[r].loaded[1], inflight[r].body))])
    /\ UNCHANGED <<users, contacts, nextContactId, creator, now, issued, last>>

\* the columns the flush writes: those whose value differs from the loaded one
Dirty(loaded, obj) == {f \in DOMAIN obj : obj[f] # loaded[f]}

\* UPDATE contacts SET <dirty columns> WHERE id = :id
UpdateRow(rows, id, obj, dirty) ==
    {IF c.id = id
     THEN [f \in DOMAIN c |-> IF f \in dirty THEN obj[f] ELSE c[f]]
     ELSE c : c \in rows}

\* db.commit()
update_contact_commit(r) ==
    /\ inflight[r].op = "update_contact" /\ inflight[r].pc = "commit"
    /\ LET loaded == inflight[r].loaded[1]
           obj == inflight[r].obj[1]
           dirty == Dirty(loaded, obj)
       IN IF "email" \in dirty /\ EmailTaken(obj.email, obj.id)
          THEN /\ Advance(r, [pc |-> "done", status |-> 500, seq |-> NextSeq])
               /\ UNCHANGED contacts
          ELSE /\ contacts' = UpdateRow(contacts, obj.id, obj, dirty)
               /\ Advance(r, [pc |-> "done", status |-> 200, seq |-> NextSeq])
    /\ UNCHANGED <<users, nextContactId, creator, now, issued, last>>

\* GET /auth/refresh_token arrives
begin_refresh_token(token) ==
    /\ Begin([op |-> "refresh_token", pc |-> "read", token |-> token,
              user |-> Null, mismatch |-> FALSE, tokens |-> Null])
    /\ UNCHANGED <<users, contacts, nextContactId, creator, now, issued, last>>

\* decode, get_user_by_email, user.refresh_token != token
refresh_token_read_compare(r) ==
    /\ inflight[r].op = "refresh_token" /\ inflight[r].pc = "read"
    /\ LET token == inflight[r].token
           email == decode_refresh_token(token)
       IN IF email = Null
          THEN Advance(r, [pc |-> "done", status |-> 401, before |-> Committed])
          ELSE LET user == get_user_by_email(email[1]) IN
               Advance(r, [pc |-> "update", user |-> user, before |-> Committed,
                           mismatch |-> TokenMismatch(user[1], token)])
    /\ UNCHANGED <<users, contacts, nextContactId, creator, now, issued, last>>

\* update_token(user, None) and 401, or update_token(user, refresh_token) and
\* the new pair
refresh_token_update_token(r, t) ==
    /\ inflight[r].op = "refresh_token" /\ inflight[r].pc = "update"
    /\ t \in Clock
    /\ now' = t
    /\ LET user == inflight[r].user[1] IN
          IF inflight[r].mismatch
          THEN /\ users' = update_token(users, user.id, Null)
               /\ Advance(r, [pc |-> "done", status |-> 401, seq |-> NextSeq])
               /\ UNCHANGED issued
          ELSE LET access_token == create_access_token(user.email, t)
                   new_token == create_refresh_token(user.email, t)
               IN /\ users' = update_token(users, user.id, Some(new_token))
                  /\ issued' = issued \cup {new_token}
                  /\ Advance(r, [pc |-> "done", status |-> 200, seq |-> NextSeq,
                                 tokens |-> Some([access_token |-> access_token,
                                                  refresh_token |-> new_token,
                                                  token_type |-> "bearer"])])
    /\ UNCHANGED <<contacts, nextContactId, creator, last>>

\* POST /auth/signup arrives
begin_signup(email, password) ==
    /\ Begin([op |-> "signup", pc |-> "check", email |-> email,
              password |-> password])
    /\ UNCHANGED <<users, contacts, nextContactId, creator, now, issued, last>>

\* exist_user = get_user_by_email(body.email); 409 if there is one
signup_check(r) ==
    /\ inflight[r].op = "signup" /\ inflight[r].pc = "check"
    /\ IF get_user_by_email(inflight[r].email) # Null
       THEN Advance(r, [pc |-> "done", status |-> 409, before |-> Committed])
       ELSE Advance(r, [pc |-> "create", before |-> Committed])
    /\ UNCHANGED <<users, contacts, nextContactId, creator, now, issued, last>>

\* the unique index on users.email, evaluated at commit
UserEmailTaken(email) == \E i \in 1..Len(users) : users[i].email = email

\* create_user: db.add(new_user); db.commit()
signup_create(r) ==
    /\ inflight[r].op = "signup" /\ inflight[r].pc = "create"
    /\ IF UserEmailTaken(inflight[r].email)
       THEN \* db.commit() raises IntegrityError, which signup does not catch
            /\ Advance(r, [pc |-> "done", status |-> 500, seq |-> NextSeq])
            /\ UNCHANGED users
       ELSE /\ users' = create_user(users, inflight[r].email,
                                    get_password_hash(inflight[r].password))
            /\ Advance(r, [pc |-> "done", status |-> 201, seq |-> NextSeq])
    /\ UNCHANGED <<contacts, nextContactId, creator, now, issued, last>>

(***************************************************************************)
(* Specification of concurrent requests: user u1 has signed up, confirmed, *)
(* logged in and created one contact; u2 has not signed up.                *)
(***************************************************************************)
InitConcurrent ==
    /\ users = <<[User(1, "u1", get_password_hash("pw"))
                    EXCEPT !.confirmed = TRUE,
                           !.refresh_token = Some(create_refresh_token("u1", 0))]>>
    /\ \E body \in Bodies : contacts = {Contact(1, body, 1)}
    /\ nextContactId = 2
    /\ creator = <<1>>
    /\ now = 0
    /\ issued = {create_refresh_token("u1", 0)}
    /\ last = NoReq
    /\ inflight = <<>>

NextConcurrent ==
    \/ \E user \in UserIds, id \in 1..MaxContactId, body \in Bodies :
          begin_update_contact(user, id, body)
    \/ \E r \in 1..Len(inflight) : update_contact_read(r)
    \/ \E r \in 1..Len(inflight) : update_contact_assign(r)
    \/ \E r \in 1..Len(inflight) : update_contact_commit(r)
    \/ \E token \in Presentable : begin_refresh_token(token)
    \/ \E r \in 1..Len(inflight) : refresh_token_read_compare(r)
    \/ \E r \in 1..Len(inflight), t \in 0..MaxTime : refresh_token_update_token(r, t)
    \/ \E email \in UserEmails, password \in SignupPasswords :
          begin_signup(email, password)
    \/ \E r \in 1..Len(inflight) : signup_check(r)
    \/ \E r \in 1..Len(inflight) : signup_create(r)

SpecConcurrent == InitConcurrent /\ [][NextConcurrent]_vars

(***************************************************************************)
(* Properties of the contacts routes                                       *)
(***************************************************************************)
ContactOps == {"read_contacts", "read_contact", "create_contact",
               "remove_contact", "update_contact"}

\* the rows user owns under contact_id, read off the table
OwnedRows(rows, contact_id, user) ==
    {c \in rows : c.id = contact_id /\ c.user_id = user}

\* the six payload fields of a stored row
FieldsOf(c) ==
    [first_name |-> c.first_name, last_name |-> c.last_name, email |-> c.email,
     phone_number |-> c.phone_number, birthday |-> c.birthday,
     additional_data |-> c.additional_data]

\* the request `last'` was made as somebody else than the creator of its contact
ByStranger ==
    /\ last'.id \in DOMAIN creator
    /\ creator[last'.id] # last'.user

\* C1: a contact created by user A is never returned by get_contacts or
\* get_contact called as another user B, and update_contact or remove_contact
\* called as B with its id returns None (404) and leaves every stored contact
\* as it was.
C1_OwnerIsolation ==
    [][/\ last'.op = "read_contacts" =>
            \A i \in 1..Len(last'.ret) : creator[last'.ret[i].id] = last'.user
       /\ last'.op = "read_contact" /\ last'.ret # Null =>
            creator[last'.ret[1].id] = last'.user
       /\ last'.op \in {"update_contact", "remove_contact"} /\ ByStranger =>
            /\ last'.ret = Null
            /\ last'.status = 404
            /\ contacts' = contacts]_vars

\* a stored contact of one user was asked for, by id, by the other user
C1_Witness ==
    /\ last.op \in {"read_contact", "update_contact", "remove_contact"}
    /\ last.status = 404
    /\ \E c \in contacts : c.id = last.id /\ c.user_id # last.user
    /\ \E c \in contacts : c.user_id = last.user

\* C5: update_contact with an id under which the caller owns no contact
\* returns None (404) and changes no stored contact.
C5_UpdateAbsent ==
    [][last'.op = "update_contact"
         /\ OwnedRows(contacts, last'.id, last'.user) = {} =>
            /\ last'.ret = Null
            /\ last'.status = 404
            /\ contacts' = contacts]_vars

\* an update for an id nobody holds, while the caller owns another contact
C5_Witness ==
    /\ last.op = "update_contact"
    /\ last.status = 404
    /\ \A c \in contacts : c.id # last.id
    /\ \E c \in contacts : c.user_id = last.user

\* C6: remove_contact with an id under which the caller owns no contact
\* returns None (404) and changes no stored contact; with the id of a contact
\* the caller owns it returns that contact and the stored contacts become the
\* previous ones minus exactly that contact.
C6_RemoveExact ==
    [][last'.op = "remove_contact" =>
         LET owned == OwnedRows(contacts, last'.id, last'.user) IN
         IF owned = {}
         THEN /\ last'.ret = Null
              /\ last'.status = 404
              /\ contacts' = contacts
         ELSE /\ owned = {last'.ret[1]}
              /\ last'.status = 200
              /\ contacts' = contacts \ owned
              /\ Cardinality(contacts') = Cardinality(contacts) - 1]_vars

\* a contact was removed and another contact is still stored
C6_Witness ==
    /\ last.op = "remove_contact"
    /\ last.status = 200
    /\ last.ret # Null
    /\ last.ret[1] \notin contacts
    /\ contacts # {}

\* C9: the contact create_contact returns carries the submitted fields, the
\* caller as owner and an id no other stored contact has; get_contact with
\* that id as the owner returns exactly this row, and the row stays as it is
\* under every request that is not a successful update or removal of it.
C9_CreateThenGet ==
    [][/\ last'.op = "create_contact" /\ last'.status = 201 =>
            LET c == last'.ret[1] IN
            /\ FieldsOf(c) = last'.body[1]
            /\ c.user_id = last'.user
            /\ c.id = last'.id
            /\ \A d \in contacts : d.id # c.id
            /\ contacts' = contacts \cup {c}
            /\ OwnedRows(contacts', c.id, last'.user) = {c}
       /\ \A c \in contacts :
            \/ c \in contacts'
            \/ /\ last'.op \in {"update_contact", "remove_contact"}
               /\ last'.status = 200
               /\ last'.id = c.id
               /\ last'.user = c.user_id
       /\ last'.op = "read_contact" =>
            \A c \in contacts :
               c.id = last'.id /\ c.user_id = last'.user => last'.ret = Some(c)
       /\ \A c, d \in contacts' : c.id = d.id => c = d]_vars

\* a created contact was read back by its owner after another request
C9_Witness ==
    /\ last.op = "read_contact"
    /\ last.status = 200
    /\ last.ret[1] \in contacts
    /\ creator[last.id] = last.user
    /\ Cardinality(contacts) = 2

\* C10 as stated: update_contact on a contact the caller owns sets every
\* payload field to the payload's value and leaves id, owner and every other
\* contact unchanged.
C10_AsStated ==
    [][last'.op = "update_contact" /\ last'.pre # Null =>
         LET old == last'.pre[1]
             new == [old EXCEPT !.first_name = last'.body[1].first_name,
                                !.last_name = last'.body[1].last_name,
                                !.email = last'.body[1].email,
                                !.phone_number = last'.body[1].phone_number,
                                !.birthday = last'.body[1].birthday,
                                !.additional_data = last'.body[1].additional_data]
         IN contacts' = (contacts \ {old}) \cup {new}]_vars

\* C10 amended: when no other stored contact has the payload's email, the
\* update sets every payload field, null values included, and leaves id,
\* owner and every other contact unchanged; when another stored contact has
\* that email the commit fails and no contact changes.
C10_UpdateOverwrites ==
    [][last'.op = "update_contact" /\ last'.pre # Null =>
         LET old == last'.pre[1]
             new == [old EXCEPT !.first_name = last'.body[1].first_name,
                                !.last_name = last'.body[1].last_name,
                                !.email = last'.body[1].email,
                                !.phone_number = last'.body[1].phone_number,
                                !.birthday = last'.body[1].birthday,
                                !.additional_data = last'.body[1].additional_data]
         IN /\ old \in contacts
            /\ IF \E c \in contacts : c # old /\ c.email = last'.body[1].email
               THEN /\ last'.status = 500
                    /\ contacts' = contacts
               ELSE /\ last'.status = 200
                    /\ last'.ret = Some(new)
                    /\ contacts' = (contacts \ {old}) \cup {new}]_vars

\* an update replaced a stored birthday by null while another contact exists
C10_Witness ==
    /\ last.op = "update_contact"
    /\ last.status = 200
    /\ last.pre[1].birthday # Null
    /\ last.body[1].birthday = Null
    /\ last.ret[1].birthday = Null
    /\ last.ret[1] \in contacts
    /\ Cardinality(contacts) = 2

\* lower() of a whole string
Fold(str) == [i \in 1..Len(str) |-> Lower(str[i])]

\* term occurs in str as a substring, letter case ignored
ContainsIgnoreCase(str, term) ==
    \E i \in 0..(Len(str) - Len(term)) :
        SubSeq(Fold(str), i + 1, i + Len(term)) = Fold(term)

\* C7: search_contacts returns exactly the stored contacts, of every owner,
\* whose first_name, last_name and email each contain the corresponding input
\* as a case-insensitive substring.
C7_SearchIsSubstring ==
    last.op = "search_contacts" =>
        last.ret = {c \in contacts :
                       /\ ContainsIgnoreCase(c.first_name, last.first_name)
                       /\ ContainsIgnoreCase(c.last_name, last.last_name)
                       /\ ContainsIgnoreCase(c.email, last.email)}

\* C8: get_contacts_upcoming_birthdays returns exactly the contacts whose
\* birthday month is today's month and whose birthday day d satisfies
\* today's day <= d <= today's day + 7.
C8_BirthdayWindow ==
    last.op = "upcoming_birthdays" =>
        last.ret = {c \in contacts :
                       /\ c.birthday # Null
                       /\ c.birthday[1].month = last.today.month
                       /\ c.birthday[1].day >= last.today.day
                       /\ c.birthday[1].day <= last.today.day + 7}

(***************************************************************************)
(* Properties of the auth routes                                           *)
(***************************************************************************)
\* the refresh token stored in rows for the user with this email
StoredToken(rows, email) ==
    LET ids == {i \in 1..Len(rows) : rows[i].email = email} IN
    IF ids = {} THEN Null ELSE rows[CHOOSE i \in ids : TRUE].refresh_token

\* the refresh tokens handed out for this email
IssuedFor(email) == {t \in issued : t.sub = email}

\* C2: refresh_token with a validly decoded refresh token that differs from
\* the user's stored one responds 401 and sets the stored token to null, and
\* the next refresh_token call, made with the token that was stored before
\* the mismatch, responds 401 as well.
C2_MismatchRevokes ==
    [][/\ last'.op = "refresh_token"
            /\ last'.token.scope = "refresh_token"
            /\ StoredToken(users, last'.token.sub) # Some(last'.token) =>
               /\ last'.status = 401
               /\ last'.tokens = Null
               /\ StoredToken(users', last'.token.sub) = Null
       /\ last.op = "refresh_token" /\ last.status = 401 /\ last.pre # Null
            /\ last'.op = "refresh_token" /\ last'.token = last.pre[1] =>
               /\ last'.status = 401
               /\ last'.tokens = Null]_vars

\* the token issued last to a user was presented after a mismatch had
\* cleared it, and was refused
C2_Witness ==
    /\ last.op = "refresh_token"
    /\ last.status = 401
    /\ last.token \in issued
    /\ last.pre = Null
    /\ \A t \in IssuedFor(last.email) : t.iat <= last.token.iat
    /\ Cardinality(IssuedFor(last.email)) >= 2
    /\ StoredToken(users, last.email) = Null

\* C3: a successful login or refresh stores the refresh token it returns;
\* refresh_token accepts an issued refresh token exactly when it is the
\* stored one and answers 401 otherwise; the stored token changes under no
\* other request and is never older than another token issued to the user.
C3_SingleActiveToken ==
    /\ [][/\ last'.op \in {"login", "refresh_token"} /\ last'.status = 200 =>
               StoredToken(users', last'.email)
                  = Some(last'.tokens[1].refresh_token)
          /\ last'.op = "refresh_token" /\ last'.token \in issued =>
               /\ last'.status = 200
                     <=> StoredToken(users, last'.token.sub) = Some(last'.token)
               /\ last'.status \in {200, 401}
          /\ \A e \in UserEmails :
               StoredToken(users', e) # StoredToken(users, e) =>
                  /\ last'.op \in {"login", "refresh_token"}
                  /\ last'.email = e]_vars
    /\ [](\A e \in UserEmails :
            StoredToken(users, e) # Null =>
               /\ StoredToken(users, e)[1] \in IssuedFor(e)
               /\ \A t \in IssuedFor(e) : t.iat <= StoredToken(users, e)[1].iat)

\* a refresh token issued earlier was refused while a later one was stored
C3_Witness ==
    /\ last.op = "refresh_token"
    /\ last.status = 401
    /\ last.token \in issued
    /\ last.pre # Null
    /\ last.token.iat < last.pre[1].iat

\* the outcome of a refused login
LoginRefused(detail) ==
    /\ last'.status = 401
    /\ last'.detail = detail
    /\ last'.tokens = Null
    /\ users' = users
    /\ issued' = issued

\* C4: login responds 401, issues no tokens and leaves the stored refresh
\* token unchanged when no user has the email ('Invalid email'), else when the
\* user is not confirmed ('Email not confirmed'), else when the password does
\* not verify ('Invalid password'); otherwise it issues an access/refresh
\* pair and stores the refresh token.
C4_LoginPrecedence ==
    [][last'.op = "login" =>
         LET ids == {i \in 1..Len(users) : users[i].email = last'.email} IN
         IF ids = {} THEN LoginRefused("Invalid email")
         ELSE LET u == users[CHOOSE i \in ids : TRUE] IN
              IF ~u.confirmed THEN LoginRefused("Email not confirmed")
              ELSE IF u.password # get_password_hash(last'.password)
              THEN LoginRefused("Invalid password")
              ELSE /\ last'.status = 200
                   /\ last'.tokens # Null
                   /\ last'.tokens[1].refresh_token.sub = u.email
                   /\ last'.tokens[1].refresh_token.scope = "refresh_token"
                   /\ last'.tokens[1].access_token.scope = "access_token"
                   /\ users' = [users EXCEPT ![u.id].refresh_token =
                                   Some(last'.tokens[1].refresh_token)]]_vars

\* an unconfirmed user logged in with a wrong password
C4_Witness ==
    /\ last.op = "login"
    /\ last.status = 401
    /\ last.detail = "Email not confirmed"
    /\ last.password = "bad"
    /\ \E i \in 1..Len(users) : users[i].email = last.email /\ ~users[i].confirmed

\* the ids of the rows with this email
IdsOf(rows, email) == {i \in 1..Len(rows) : rows[i].email = email}

\* C11: a signup whose email a stored user has responds 409 and creates or
\* changes no user; a signup whose email is not stored responds 201 and adds
\* exactly one user with that email, unconfirmed and without refresh token;
\* no two stored users share an email.
C11_SignupUnique ==
    /\ [][last'.op = "signup" =>
            IF IdsOf(users, last'.email) # {}
            THEN /\ last'.status = 409
                 /\ last'.mail = Null
                 /\ users' = users
            ELSE /\ last'.status = 201
                 /\ Len(users') = Len(users) + 1
                 /\ \A i \in 1..Len(users) : users'[i] = users[i]
                 /\ users'[Len(users')].email = last'.email
                 /\ ~users'[Len(users')].confirmed
                 /\ users'[Len(users')].refresh_token = Null]_vars
    /\ [](\A i, j \in 1..Len(users) : users[i].email = users[j].email => i = j)

\* a signup was refused for a stored email after two users had been created
C11_Witness ==
    /\ last.op = "signup"
    /\ last.status = 409
    /\ Len(users) = 2
    /\ IdsOf(users, last.email) # {}

\* C12: for the email of a stored user the first confirmed_email sets
\* confirmed and reports 'Email confirmed', a call for a confirmed user
\* reports 'Your email is already confirmed' and changes nothing; for an
\* email of no user it responds 400 and changes nothing; no request ever
\* resets confirmed.
C12_ConfirmIdempotent ==
    [][/\ last'.op = "confirmed_email" =>
            LET ids == IdsOf(users, last'.email) IN
            IF ids = {}
            THEN /\ last'.status = 400
                 /\ users' = users
            ELSE LET i == CHOOSE i \in ids : TRUE IN
                 IF users[i].confirmed
                 THEN /\ last'.status = 200
                      /\ last'.detail = "Your email is already confirmed"
                      /\ users' = users
                 ELSE /\ last'.status = 200
                      /\ last'.detail = "Email confirmed"
                      /\ users' = [users EXCEPT ![i].confirmed = TRUE]
       /\ last.op = "confirmed_email" /\ last.status = 200
            /\ last'.op = "confirmed_email" /\ last'.email = last.email =>
               /\ last'.detail = "Your email is already confirmed"
               /\ users' = users
       /\ Len(users') >= Len(users)
       /\ \A i \in 1..Len(users) : users[i].confirmed => users'[i].confirmed]_vars

\* a confirmed user followed the confirmation link again
C12_Witness ==
    /\ last.op = "confirmed_email"
    /\ last.status = 200
    /\ last.detail = "Your email is already confirmed"
    /\ \E i \in IdsOf(users, last.email) : users[i].confirmed

\* C13: request_email schedules a confirmation mail exactly when a user with
\* the email exists and is not confirmed; for a confirmed user it schedules
\* nothing and reports 'Your email is already confirmed'; it changes no user.
C13_RequestEmail ==
    [][last'.op = "request_email" =>
         /\ last'.mail # Null
               <=> \E i \in IdsOf(users, last'.email) : ~users[i].confirmed
         /\ last'.mail # Null => last'.mail = Some(last'.email)
         /\ (\E i \in IdsOf(users, last'.email) : users[i].confirmed) =>
               /\ last'.status = 200
               /\ last'.detail = "Your email is already confirmed"
         /\ users' = users]_vars

\* a confirmed user asked for the mail again and none was scheduled
C13_Witness ==
    /\ last.op = "request_email"
    /\ last.mail = Null
    /\ last.detail = "Your email is already confirmed"
    /\ \E i \in IdsOf(users, last.email) : users[i].confirmed
    /\ \E i \in 1..Len(users) : ~users[i].confirmed

\* C17: a user with a stored refresh token is confirmed, and a token pair is
\* only ever returned for a confirmed user.
C17_TokensOnlyConfirmed ==
    /\ \A i \in 1..Len(users) :
          users[i].refresh_token # Null => users[i].confirmed
    /\ last.op \in {"login", "refresh_token"} /\ last.tokens # Null =>
          /\ IdsOf(users, last.tokens[1].refresh_token.sub) # {}
          /\ \A i \in IdsOf(users, last.tokens[1].refresh_token.sub) :
                users[i].confirmed

\* one user holds a refresh token while an unconfirmed user was refused a
\* login with the right password
C17_Witness ==
    /\ last.op = "login"
    /\ last.password = "pw"
    /\ last.tokens = Null
    /\ \E i \in IdsOf(users, last.email) : ~users[i].confirmed
    /\ \E i \in 1..Len(users) : users[i].refresh_token # Null

\* C18: request_email for an email no user has completes normally: it
\* schedules no mail and returns 'Check your email for confirmation.'
C18_RequestEmailUnknown ==
    last.op = "request_email" /\ IdsOf(users, last.email) = {} =>
        /\ last.status = 200
        /\ last.detail = "Check your email for confirmation."
        /\ last.mail = Null

(***************************************************************************)
(* Properties of concurrent requests                                       *)
(***************************************************************************)
\* requests r1 and r2 ran concurrently: each read before the other committed
Raced(r1, r2) ==
    /\ r1 # r2
    /\ inflight[r1].pc = "done" /\ inflight[r2].pc = "done"
    /\ r1 \notin inflight[r2].before
    /\ r2 \notin inflight[r1].before

\* C14: after two concurrent update_contact requests by the owner for the
\* same contact, the stored contact equals in every field the payload of the
\* request that committed last.
C14_LastWriteWins ==
    \A r1, r2 \in 1..Len(inflight) :
        /\ inflight[r1].op = "update_contact" /\ inflight[r2].op = "update_contact"
        /\ inflight[r1].id = inflight[r2].id /\ inflight[r1].user = inflight[r2].user
        /\ Raced(r1, r2)
        /\ inflight[r1].status = 200 /\ inflight[r2].status = 200
        /\ inflight[r1].seq < inflight[r2].seq
        => \A c \in contacts :
              c.id = inflight[r2].id => FieldsOf(c) = inflight[r2].body

\* C15: of two concurrent refresh_token requests presenting the same stored
\* token at most one returns a new token pair.
C15_ExchangedOnce ==
    \A r1, r2 \in 1..Len(inflight) :
        /\ inflight[r1].op = "refresh_token" /\ inflight[r2].op = "refresh_token"
        /\ inflight[r1].token = inflight[r2].token
        /\ Raced(r1, r2)
        => ~(inflight[r1].status = 200 /\ inflight[r2].status = 200)

\* C16: after two concurrent signup requests for the same email, which was
\* not stored before, at most one user with that email is stored and the
\* request that did not create the user responded 409.
C16_SignupRace ==
    \A r1, r2 \in 1..Len(inflight) :
        /\ inflight[r1].op = "signup" /\ inflight[r2].op = "signup"
        /\ inflight[r1].email = inflight[r2].email
        /\ Raced(r1, r2)
        => /\ Cardinality(IdsOf(users, inflight[r1].email)) <= 1
           /\ inflight[r1].status # 201 => inflight[r1].status = 409

====
